---- MODULE Spec2Model ----
(***************************************************************************)
(* A model of prices.py: the two argument validators (validate_ticker,     *)
(* validate_period) and the run of main() against the external data        *)
(* source (yfinance), which is an opaque collaborator whose answers are     *)
(* chosen nondeterministically.                                             *)
(*                                                                         *)
(* A Python str is a sequence of one-character strings.  Prices are        *)
(* integers counted in thousandths of a currency unit, volumes are          *)
(* integers, and a quotient is kept exact as a pair [num, den].             *)
(***************************************************************************)
EXTENDS Integers, Sequences, FiniteSets

VARIABLES
    pc,             \* position of the run (or of the validator under test)
    raw,            \* the argument handed to the validator under test
    result,         \* what the validator under test returned or raised
    args,           \* parse_arguments(): [ticker, period]
    ticker_symbol,  \* main: ticker_symbol
    period,         \* main: period
    info,           \* what stock.info answered
    history,        \* main: history (the rows of the DataFrame)
    stats,          \* main: last_price .. avg_volume
    exc,            \* the exception travelling to main's handlers
    output,         \* the lines printed so far
    calls,          \* the requests issued to the data source so far
    exit_status     \* the exit status of the process

vars == <<pc, raw, result, args, ticker_symbol, period, info, history, stats,
          exc, output, calls, exit_status>>

None == "None"

(***************************************************************************)
(* Bounds                                                                  *)
(***************************************************************************)
\* longest argument string handed to a validator
MaxLen == 4
\* longest series enumerated over every choice of records
MaxShort == 2
\* longest series the data source answers with
MaxRecords == 22

(***************************************************************************)
(* Python str operations                                                   *)
(***************************************************************************)
Whitespace == {" "}

Digits == <<"0", "1", "2", "3", "4", "5", "6", "7", "8", "9">>

DigitSet == {Digits[i] : i \in 1..10}

\* the value of a decimal digit
DigitVal(c) == (CHOOSE i \in 1..10 : Digits[i] = c) - 1

\* the letters that occur in the arguments, <<lowercase, uppercase>>
Letters ==
    { <<"a", "A">>, <<"b", "B">>, <<"c", "C">>, <<"d", "D">>, <<"f", "F">>,
      <<"l", "L">>, <<"m", "M">>, <<"o", "O">>, <<"p", "P">>, <<"s", "S">>,
      <<"t", "T">>, <<"x", "X">>, <<"y", "Y">> }

\* str.lower() on one character
LowerChar(c) ==
    IF \E l \in Letters : l[2] = c THEN (CHOOSE l \in Letters : l[2] = c)[1] ELSE c

\* str.upper() on one character
UpperChar(c) ==
    IF \E l \in Letters : l[1] = c THEN (CHOOSE l \in Letters : l[1] = c)[2] ELSE c

\* str.lower()
Lower(s) == [i \in 1..Len(s) |-> LowerChar(s[i])]

\* str.upper()
Upper(s) == [i \in 1..Len(s) |-> UpperChar(s[i])]

\* str.lstrip()
RECURSIVE LStrip(_)
LStrip(s) ==
    IF s # <<>> /\ Head(s) \in Whitespace THEN LStrip(Tail(s)) ELSE s

\* str.rstrip()
RECURSIVE RStrip(_)
RStrip(s) ==
    IF s # <<>> /\ s[Len(s)] \in Whitespace
    THEN RStrip(SubSeq(s, 1, Len(s) - 1))
    ELSE s

\* str.strip()
Strip(s) == RStrip(LStrip(s))

\* the value of a non-empty run of digits and underscores, underscores skipped
RECURSIVE DigitsValue(_)
DigitsValue(s) ==
    IF s = <<>> THEN 0
    ELSE LET front == SubSeq(s, 1, Len(s) - 1)
             last  == s[Len(s)]
         IN  IF last = "_" THEN DigitsValue(front)
             ELSE DigitsValue(front) * 10 + DigitVal(last)

\* int()'s literal grammar after the sign: digits, single underscores between them
IsDigitRun(s) ==
    /\ s # <<>>
    /\ \A i \in 1..Len(s) : s[i] \in DigitSet \cup {"_"}
    /\ s[1] # "_"
    /\ s[Len(s)] # "_"
    /\ \A i \in 1..(Len(s) - 1) : ~(s[i] = "_" /\ s[i + 1] = "_")

\* int(s): surrounding whitespace dropped, an optional sign, a digit run;
\* anything else raises ValueError("invalid literal for int() with base 10: ...")
ParseInt(s) ==
    LET t    == Strip(s)
        sgn  == IF t # <<>> /\ t[1] = "-" THEN -1 ELSE 1
        body == IF t # <<>> /\ t[1] \in {"+", "-"} THEN Tail(t) ELSE t
    IN  IF IsDigitRun(body)
        THEN [ok |-> TRUE, val |-> sgn * DigitsValue(body)]
        ELSE [ok |-> FALSE, val |-> 0]

\* str(n) for n >= 0
RECURSIVE NatStr(_)
NatStr(n) ==
    IF n < 10 THEN <<Digits[n + 1]>>
    ELSE Append(NatStr(n \div 10), Digits[(n % 10) + 1])

\* f"{n}"
IntStr(n) == IF n < 0 THEN <<"-">> \o NatStr(-n) ELSE NatStr(n)

(***************************************************************************)
(* Exceptions and results                                                  *)
(***************************************************************************)
\* an exception: its class as the handlers of main see it, its message, the
\* argument and the list the message quotes
Exception(type, msg, arg, detail) ==
    [type |-> type, msg |-> msg, arg |-> arg, detail |-> detail]

ValueError(msg, arg, detail) == Exception("ValueError", msg, arg, detail)

\* no exception is travelling
NoException == Exception("", "", <<>>, <<>>)

Return(v) == [raised |-> FALSE, val |-> v, exc |-> None]

Raise(e) == [raised |-> TRUE, val |-> None, exc |-> e]

MsgTickerEmpty == "El ticker no puede estar vacio"
MsgTooSmall == "El numero de dias debe ser mayor a 0"
MsgTooLarge == "El numero maximo de dias es 3650"
MsgInvalidPeriod == "Periodo invalido"
MsgInvalidLiteral == "invalid literal for int() with base 10"

\* "invalid literal" in str(e)
ContainsInvalidLiteral(msg) == msg = MsgInvalidLiteral

(***************************************************************************)
(* The validators                                                          *)
(***************************************************************************)
MinDays == 1
MaxDays == 3650

predefined_periods ==
    << <<"1", "d">>, <<"5", "d">>, <<"1", "m", "o">>, <<"3", "m", "o">>,
       <<"6", "m", "o">>, <<"1", "y">>, <<"2", "y">>, <<"5", "y">>,
       <<"1", "0", "y">>, <<"m", "a", "x">> >>

InPredefined(s) == \E i \in 1..Len(predefined_periods) : predefined_periods[i] = s

\* validate_ticker returning ticker.upper() without the strip()
validate_ticker_unstripped(ticker) ==
    IF ticker = <<>> \/ Len(Strip(ticker)) = 0
    THEN Raise(ValueError(MsgTickerEmpty, <<>>, <<>>))
    ELSE Return(Upper(ticker))

validate_ticker(ticker) ==
    IF ticker = <<>> \/ Len(Strip(ticker)) = 0
    THEN Raise(ValueError(MsgTickerEmpty, <<>>, <<>>))
    ELSE Return(Strip(Upper(ticker)))

\* the try block with the upper range check written days >= 3650
period_days_exclusive(period_str) ==
    LET p == ParseInt(period_str)
    IN  IF ~p.ok THEN Raise(ValueError(MsgInvalidLiteral, period_str, <<>>))
        ELSE IF p.val < MinDays THEN Raise(ValueError(MsgTooSmall, <<>>, <<>>))
        ELSE IF p.val >= MaxDays THEN Raise(ValueError(MsgTooLarge, <<>>, <<>>))
        ELSE Return(IntStr(p.val) \o <<"d">>)

\* the try block of validate_period: int(), the two range checks, the f-string
period_days(period_str) ==
    LET p == ParseInt(period_str)
    IN  IF ~p.ok THEN Raise(ValueError(MsgInvalidLiteral, period_str, <<>>))
        ELSE IF p.val < MinDays THEN Raise(ValueError(MsgTooSmall, <<>>, <<>>))
        ELSE IF p.val > MaxDays THEN Raise(ValueError(MsgTooLarge, <<>>, <<>>))
        ELSE Return(IntStr(p.val) \o <<"d">>)

validate_period(period_str) ==
    IF InPredefined(Lower(period_str))
    THEN Return(Lower(period_str))
    ELSE LET r == period_days(period_str)
         IN  IF r.raised /\ ContainsInvalidLiteral(r.exc.msg)
             THEN Raise(ValueError(MsgInvalidPeriod, period_str, predefined_periods))
             ELSE r

(***************************************************************************)
(* The data source (yfinance), an opaque collaborator                      *)
(***************************************************************************)
\* isinstance(e, ValueError): json.JSONDecodeError derives from ValueError
IsValueError(e) == e.type \in {"ValueError", "JSONDecodeError"}

\* what stock.info answers: a dict with or without the two names, None, or an
\* exception of the transport (names holds the keys the dict has)
InfoAnswer(kind, names) ==
    [kind |-> kind, names |-> names,
     longName |-> <<"A", "p", "p", "l", "e">>, shortName |-> <<"A", "P">>]

\* before stock.info was read
InfoUnbound == InfoAnswer("unbound", {})

InfoOutcomes ==
    { InfoAnswer("dict", {"longName", "shortName"}),
      InfoAnswer("dict", {"shortName"}),
      InfoAnswer("dict", {}),
      InfoAnswer("none", {}),
      InfoAnswer("ConnectionError", {}),
      InfoAnswer("JSONDecodeError", {}) }

\* the exceptions stock.history raises
HistoryFailures ==
    { Exception("ConnectionError", "connection refused", <<>>, <<>>),
      Exception("JSONDecodeError", "Expecting value", <<>>, <<>>) }

\* the open, high, low, close and volume of one session
RowValues ==
    [Open : {99999}, High : {110000, 120004}, Low : {90000, 95006},
     Close : {0, 100000, 101015}, Volume : {1000, 2001}]

\* a row of the DataFrame: its place in the index (the date) and its columns
Row(date, v) ==
    [Date |-> date, Open |-> v.Open, High |-> v.High, Low |-> v.Low,
     Close |-> v.Close, Volume |-> v.Volume]

\* every series up to MaxShort sessions long, dates ascending
ShortSeries ==
    UNION { { [i \in 1..n |-> Row(i, f[i])] : f \in [1..n -> RowValues] } : n \in 0..MaxShort }

\* a series of n sessions whose columns wander with the date
LongSeries(n, k) ==
    [i \in 1..n |->
        LET c == 100000 + (((i * 7) + (k * 5)) % 11) * 1003
        IN  [Date |-> i, Open |-> c - 501, High |-> c + ((i + k) % 4) * 250,
             Low |-> c - ((i * 3 + k) % 5) * 125 - 501, Close |-> c,
             Volume |-> 1000 + ((i * i + k) % 7) * 333] ]

\* five sessions closing at 100, 102, 98, 105, 110
ExampleCloses == <<100000, 102000, 98000, 105000, 110000>>

ExampleSeries ==
    [i \in 1..5 |->
        [Date |-> i, Open |-> ExampleCloses[i] - 500, High |-> ExampleCloses[i] + 1500,
         Low |-> ExampleCloses[i] - 2500, Close |-> ExampleCloses[i],
         Volume |-> 1000 * i] ]

\* the series stock.history answers with
HistorySeries ==
    ShortSeries \cup {ExampleSeries}
        \cup { LongSeries(n, k) : n \in (MaxShort + 1)..MaxRecords, k \in 0..1 }

(***************************************************************************)
(* Arithmetic of the report                                                *)
(***************************************************************************)
\* n / d rounded to the nearest integer, ties to even (d > 0)
RoundDiv(n, d) ==
    LET q == n \div d
        r == n % d
    IN  IF 2 * r > d \/ (2 * r = d /\ q % 2 = 1) THEN q + 1 ELSE q

\* float division: a quotient, or inf / nan when the divisor is zero
Quotient(n, d) ==
    IF d = 0
    THEN [kind |-> IF n = 0 THEN "nan" ELSE "inf", num |-> n, den |-> 0]
    ELSE IF d < 0 THEN [kind |-> "finite", num |-> -n, den |-> -d]
    ELSE [kind |-> "finite", num |-> n, den |-> d]

\* q * k
Times(q, k) == [q EXCEPT !.num = q.num * k]

\* format(x, ".2f") of a price: hundredths
Fixed2(x) == RoundDiv(x, 10)

\* format(q, "+.2f"): the sign and the hundredths of the magnitude
SignedFixed2(q) ==
    IF q.kind # "finite"
    THEN [sign |-> IF q.num < 0 THEN "-" ELSE "+", text |-> q.kind, hundredths |-> 0]
    ELSE [sign |-> IF q.num < 0 THEN "-" ELSE "+", text |-> "number",
          hundredths |-> RoundDiv((IF q.num < 0 THEN -q.num ELSE q.num) * 100, q.den)]

\* format(q, ",.0f")
Fixed0(q) == RoundDiv(q.num, q.den)

\* Series.max()
RECURSIVE SeriesMax(_)
SeriesMax(s) ==
    IF Len(s) = 1 THEN s[1]
    ELSE LET m == SeriesMax(Tail(s)) IN IF s[1] > m THEN s[1] ELSE m

\* Series.min()
RECURSIVE SeriesMin(_)
SeriesMin(s) ==
    IF Len(s) = 1 THEN s[1]
    ELSE LET m == SeriesMin(Tail(s)) IN IF s[1] < m THEN s[1] ELSE m

\* Series.sum()
RECURSIVE SeriesSum(_)
SeriesSum(s) == IF s = <<>> THEN 0 ELSE s[1] + SeriesSum(Tail(s))

\* Series.mean()
SeriesMean(s) == Quotient(SeriesSum(s), Len(s))

\* history['Close'], history['High'], ...
Column(h, name) == [i \in 1..Len(h) |-> h[i][name]]

\* the summary with the percentage taken against the last close
SummaryStats_OverLast(h) ==
    LET last_price  == Column(h, "Close")[Len(h)]
        first_price == Column(h, "Close")[1]
        change      == last_price - first_price
    IN  [first_price    |-> first_price,
         last_price     |-> last_price,
         change         |-> change,
         change_percent |-> Times(Quotient(change, last_price), 100),
         max_price      |-> SeriesMax(Column(h, "High")),
         min_price      |-> SeriesMin(Column(h, "Low")),
         avg_volume     |-> SeriesMean(Column(h, "Volume"))]

\* last_price .. avg_volume of main
SummaryStats(h) ==
    LET last_price  == Column(h, "Close")[Len(h)]
        first_price == Column(h, "Close")[1]
        change      == last_price - first_price
    IN  [first_price    |-> first_price,
         last_price     |-> last_price,
         change         |-> change,
         change_percent |-> Times(Quotient(change, first_price), 100),
         max_price      |-> SeriesMax(Column(h, "High")),
         min_price      |-> SeriesMin(Column(h, "Low")),
         avg_volume     |-> SeriesMean(Column(h, "Volume"))]

\* the summary block as printed
SummaryText(st) ==
    [first   |-> Fixed2(st.first_price),
     last    |-> Fixed2(st.last_price),
     change  |-> Fixed2(st.change),
     percent |-> SignedFixed2(st.change_percent),
     max     |-> Fixed2(st.max_price),
     min     |-> Fixed2(st.min_price),
     volume  |-> Fixed0(st.avg_volume)]

\* display_data: the five columns, prices rounded to 2 decimals, volume as int
DisplayData(h) ==
    [i \in 1..Len(h) |->
        [Date |-> h[i].Date, Open |-> Fixed2(h[i].Open) * 10,
         High |-> Fixed2(h[i].High) * 10, Low |-> Fixed2(h[i].Low) * 10,
         Close |-> Fixed2(h[i].Close) * 10, Volume |-> h[i].Volume] ]

\* the most rows the table prints
TailRows == 20

\* DataFrame.tail(n)
DataFrameTail(d, n) ==
    IF Len(d) <= n THEN d ELSE SubSeq(d, Len(d) - n + 1, Len(d))

(***************************************************************************)
(* The validators run on their own: every argument up to MaxLen            *)
(***************************************************************************)
\* every str over the characters of A, up to n long
StringsOver(A, n) == UNION {[1..k -> A] : k \in 0..n}

TickerChars == {" ", "a", "A", "p", "L", "1"}

NumberChars == {" ", "+", "-", "_", "0", "1", "3", "5", "6"}

TagChars == {" ", "1", "5", "d", "D", "m", "o", "M", "A", "X"}

TickerInputs == StringsOver(TickerChars, MaxLen)

PeriodInputs ==
    StringsOver(NumberChars, MaxLen) \cup StringsOver(TagChars, MaxLen)
        \cup { <<"a", "b", "c">> }

\* the variables of main(), unused while a validator runs on its own
MainIdle ==
    /\ args = None
    /\ ticker_symbol = None
    /\ period = None
    /\ info = InfoUnbound
    /\ history = None
    /\ stats = None
    /\ exc = NoException
    /\ output = <<>>
    /\ calls = <<>>
    /\ exit_status = None

mainVars == <<args, ticker_symbol, period, info, history, stats, exc, output,
              calls, exit_status>>

InitTicker ==
    /\ pc = "validate_ticker"
    /\ raw \in TickerInputs
    /\ result = None
    /\ MainIdle

CallValidateTicker ==
    /\ pc = "validate_ticker"
    /\ result' = validate_ticker(raw)
    /\ pc' = "returned"
    /\ UNCHANGED <<raw, mainVars>>

SpecTicker == InitTicker /\ [][CallValidateTicker]_vars

InitPeriod ==
    /\ pc = "validate_period"
    /\ raw \in PeriodInputs
    /\ result = None
    /\ MainIdle

CallValidatePeriod ==
    /\ pc = "validate_period"
    /\ result' = validate_period(raw)
    /\ pc' = "returned"
    /\ UNCHANGED <<raw, mainVars>>

SpecPeriod == InitPeriod /\ [][CallValidatePeriod]_vars

(***************************************************************************)
(* main()                                                                  *)
(***************************************************************************)
\* the command lines tried: args.ticker and args.period
TickerArgs == { <<>>, <<" ", " ">>, <<" ", "a", "a", "p", "l">> }

PeriodArgs ==
    { <<"M", "A", "X">>, <<"3", "0">>, <<"0">>, <<"3", "6", "5", "1">>,
      <<"a", "b", "c">>, <<" ", "1", "m", "o">> }

\* one print()
Line(tag, val) == [tag |-> tag, val |-> val]

Emit(lines) == output' = output \o lines

\* the hints of the two multi-line messages
Causes == <<"ticker", "period", "connection">>

Solutions == <<"connection", "ticker", "shorter period", "wait and retry">>

\* info.get('longName', info.get('shortName', ticker_symbol))
CompanyName(i, ticker) ==
    IF "longName" \in i.names THEN i.longName
    ELSE IF "shortName" \in i.names THEN i.shortName
    ELSE ticker

Init ==
    /\ pc = "start"
    /\ raw = None
    /\ result = None
    /\ args \in [ticker : TickerArgs, period : PeriodArgs]
    /\ ticker_symbol = None
    /\ period = None
    /\ info = InfoUnbound
    /\ history = None
    /\ stats = None
    /\ exc = NoException
    /\ output = <<>>
    /\ calls = <<>>
    /\ exit_status = None

\* parse_arguments, the two validators, the header
Validate ==
    /\ pc = "start"
    /\ LET t == validate_ticker(args.ticker)
           p == validate_period(args.period)
       IN  IF t.raised
           THEN /\ exc' = t.exc
                /\ pc' = "except"
                /\ UNCHANGED <<ticker_symbol, period, output>>
           ELSE IF p.raised
           THEN /\ ticker_symbol' = t.val
                /\ exc' = p.exc
                /\ pc' = "except"
                /\ UNCHANGED <<period, output>>
           ELSE /\ ticker_symbol' = t.val
                /\ period' = p.val
                /\ Emit(<<Line("header", t.val), Line("period", p.val)>>)
                /\ pc' = "info"
                /\ UNCHANGED exc
    /\ UNCHANGED <<raw, result, args, info, history, stats, calls, exit_status>>

\* the inner try of main: on a dict the company line, on anything else the warning
InfoLine(o, ticker) ==
    IF o.kind = "dict"
    THEN Line("company", CompanyName(o, ticker))
    ELSE Line("warning", ticker)

\* the inner handler written except ValueError: any other failure leaves main's try
FetchInfo_Propagating ==
    /\ pc = "info"
    /\ \E o \in InfoOutcomes :
        /\ info' = o
        /\ IF o.kind \in {"dict", "JSONDecodeError"}
           THEN /\ Emit(<<InfoLine(o, ticker_symbol)>>)
                /\ pc' = "history"
                /\ UNCHANGED exc
           ELSE /\ exc' = Exception(o.kind, "info", <<>>, <<>>)
                /\ pc' = "except"
                /\ UNCHANGED output
    /\ calls' = Append(calls, "info")
    /\ UNCHANGED <<raw, result, args, ticker_symbol, period, history, stats, exit_status>>

\* stock = yf.Ticker(...); stock.info inside try / bare except
FetchInfo ==
    /\ pc = "info"
    /\ \E o \in InfoOutcomes :
        /\ info' = o
        /\ Emit(<<InfoLine(o, ticker_symbol)>>)
    /\ calls' = Append(calls, "info")
    /\ pc' = "history"
    /\ UNCHANGED <<raw, result, args, ticker_symbol, period, history, stats, exc,
                   exit_status>>

\* stock.history(period=period)
FetchHistory ==
    /\ pc = "history"
    /\ Emit(<<Line("fetching", <<>>)>>)
    /\ calls' = Append(calls, "history")
    /\ \/ \E e \in HistoryFailures :
            /\ exc' = e
            /\ pc' = "except"
            /\ UNCHANGED history
       \/ \E h \in HistorySeries :
            /\ history' = h
            /\ pc' = "empty?"
            /\ UNCHANGED exc
    /\ UNCHANGED <<raw, result, args, ticker_symbol, period, info, stats, exit_status>>

\* the empty answer ending the run with sys.exit(1)
CheckEmpty_ExitOne ==
    /\ pc = "empty?"
    /\ IF Len(history) = 0
       THEN /\ Emit(<<Line("no data", <<ticker_symbol, period>>), Line("causes", Causes)>>)
            /\ pc' = "done"
            /\ exit_status' = 1
       ELSE /\ Emit(<<Line("count", Len(history)),
                      Line("range", <<history[1].Date, history[Len(history)].Date>>)>>)
            /\ pc' = "summary"
            /\ UNCHANGED exit_status
    /\ UNCHANGED <<raw, result, args, ticker_symbol, period, info, history, stats, exc,
                   calls>>

\* if history.empty: ... return; else the count and the date range
CheckEmpty ==
    /\ pc = "empty?"
    /\ IF Len(history) = 0
       THEN /\ Emit(<<Line("no data", <<ticker_symbol, period>>), Line("causes", Causes)>>)
            /\ pc' = "done"
            /\ exit_status' = 0
       ELSE /\ Emit(<<Line("count", Len(history)),
                       Line("range", <<history[1].Date, history[Len(history)].Date>>)>>)
            /\ pc' = "summary"
            /\ UNCHANGED exit_status
    /\ UNCHANGED <<raw, result, args, ticker_symbol, period, info, history, stats, exc,
                   calls>>

\* the summary block
Summary ==
    /\ pc = "summary"
    /\ stats' = SummaryStats(history)
    /\ Emit(<<Line("summary", SummaryText(SummaryStats(history)))>>)
    /\ pc' = "table"
    /\ UNCHANGED <<raw, result, args, ticker_symbol, period, info, history, exc, calls,
                   exit_status>>

\* the table cut with len(display_data) >= 20
TableLines_AtLeast(h) ==
    IF Len(DisplayData(h)) >= TailRows
    THEN <<Line("truncated", TailRows), Line("table", DataFrameTail(DisplayData(h), TailRows))>>
    ELSE <<Line("table", DisplayData(h))>>

\* the lines of the table: all rows, or the notice and the last TailRows rows
TableLines(h) ==
    IF Len(DisplayData(h)) > TailRows
    THEN <<Line("truncated", TailRows), Line("table", DataFrameTail(DisplayData(h), TailRows))>>
    ELSE <<Line("table", DisplayData(h))>>

\* the table, then main returns
Table ==
    /\ pc = "table"
    /\ Emit(<<Line("table title", period)>> \o TableLines(history))
    /\ pc' = "done"
    /\ exit_status' = 0
    /\ UNCHANGED <<raw, result, args, ticker_symbol, period, info, history, stats, exc,
                   calls>>

\* except ValueError as e
HandleValueError ==
    /\ pc = "except"
    /\ IsValueError(exc)
    /\ Emit(<<Line("validation error", exc.msg)>>)
    /\ exit_status' = 1
    /\ pc' = "done"
    /\ UNCHANGED <<raw, result, args, ticker_symbol, period, info, history, stats, exc,
                   calls>>

\* the generic handler asking the data source once more before giving up
HandleException_Retry ==
    /\ pc = "except"
    /\ ~IsValueError(exc)
    /\ calls' = Append(calls, "history")
    /\ Emit(<<Line("error", exc.msg), Line("solutions", Solutions)>>)
    /\ exit_status' = 1
    /\ pc' = "done"
    /\ UNCHANGED <<raw, result, args, ticker_symbol, period, info, history, stats, exc>>

\* except Exception as e
HandleException ==
    /\ pc = "except"
    /\ ~IsValueError(exc)
    /\ Emit(<<Line("error", exc.msg), Line("solutions", Solutions)>>)
    /\ exit_status' = 1
    /\ pc' = "done"
    /\ UNCHANGED <<raw, result, args, ticker_symbol, period, info, history, stats, exc,
                   calls>>

Next ==
    \/ Validate
    \/ FetchInfo
    \/ FetchHistory
    \/ CheckEmpty
    \/ Summary
    \/ Table
    \/ HandleValueError
    \/ HandleException

Spec == Init /\ [][Next]_vars

(***************************************************************************)
(* Properties of the validators                                            *)
(***************************************************************************)
\* the four arguments of the case test and the tags expected for them
CaseInputs ==
    << <<"1", "d">>, <<"5", "D">>, <<" ", "1", "m", "o">>, <<"M", "A", "X">> >>

CaseTags ==
    << <<"1", "d">>, <<"5", "d">>, <<"1", "m", "o">>, <<"m", "a", "x">> >>

\* C1: for each of "1d", "5D", " 1mo" and "MAX", validate_period returns the
\* lowercase predefined tag ("1d", "5d", "1mo", "max") and raises nothing.
C1_CaseInsensitiveTags ==
    pc = "returned" =>
        \A i \in 1..4 :
            raw = CaseInputs[i] => (~result.raised /\ result.val = CaseTags[i])

\* the ten predefined tags
TenTags ==
    { <<"1", "d">>, <<"5", "d">>, <<"1", "m", "o">>, <<"3", "m", "o">>,
      <<"6", "m", "o">>, <<"1", "y">>, <<"2", "y">>, <<"5", "y">>,
      <<"1", "0", "y">>, <<"m", "a", "x">> }

\* s is the decimal numeral of n followed by "d"
IsDayTag(s, n) ==
    /\ Len(s) >= 2
    /\ s[Len(s)] = "d"
    /\ \A i \in 1..(Len(s) - 1) : s[i] \in DigitSet
    /\ s[1] # "0"
    /\ DigitsValue(SubSeq(s, 1, Len(s) - 1)) = n

LowerLetters == {l[1] : l \in Letters}

\* C3: validate_ticker raises ValueError for an empty or whitespace-only
\* argument, and otherwise returns the argument trimmed and uppercased: never
\* empty, no whitespace at either end, no lowercase letter left.
C3_TickerTrimmedUppercased ==
    pc = "returned" =>
        IF \A i \in 1..Len(raw) : raw[i] \in Whitespace
        THEN result.raised /\ result.exc.type = "ValueError"
        ELSE /\ ~result.raised
             /\ result.val = Upper(Strip(raw))
             /\ result.val # <<>>
             /\ result.val[1] \notin Whitespace
             /\ result.val[Len(result.val)] \notin Whitespace
             /\ \A i \in 1..Len(result.val) : result.val[i] \notin LowerLetters

\* " aL " comes back as "AL"
C3_Witness ==
    /\ pc = "returned"
    /\ raw = <<" ", "a", "L", " ">>
    /\ ~result.raised
    /\ result.val = <<"A", "L">>

(***************************************************************************)
(* Properties of a run of main()                                           *)
(***************************************************************************)
\* the tags of the lines printed
Tags == [i \in 1..Len(output) |-> output[i].tag]

Printed(tag) == \E i \in 1..Len(output) : output[i].tag = tag

\* one of the two validators raised
ValidationFailed ==
    validate_ticker(args.ticker).raised \/ validate_period(args.period).raised

\* stock.history was called and raised
HistoryFailed == Len(calls) = 2 /\ exc.type # ""

\* stock.history was called and answered with a series
HistoryReturned == Len(calls) = 2 /\ exc.type = ""

\* stock.info was read and did not yield a usable dict
InfoFailed == Len(calls) >= 1 /\ info.kind # "dict"

\* C4: when stock.history fails, whatever it raises, the run ends with exit
\* status 1 and its output ends with the generic error line followed by the
\* four remediation hints.
C4_HistoryFailureGenericError ==
    (pc = "done" /\ HistoryFailed) =>
        /\ exit_status = 1
        /\ Len(output) >= 2
        /\ output[Len(output) - 1].tag = "error"
        /\ output[Len(output)].tag = "solutions"
        /\ output[Len(output)].val =
               <<"connection", "ticker", "shorter period", "wait and retry">>
        /\ ~Printed("validation error")

\* C5: an empty series ends the run with exit status 0 after the no-data
\* message and its hints; neither error prefix is printed and no summary or
\* table line is.
C5_EmptySeriesIsNoData ==
    (HistoryReturned /\ pc \notin {"empty?"} /\ Len(history) = 0) =>
        /\ pc = "done"
        /\ exit_status = 0
        /\ SubSeq(Tags, Len(Tags) - 1, Len(Tags)) = <<"no data", "causes">>
        /\ output[Len(output)].val = <<"ticker", "period", "connection">>
        /\ \A t \in {"validation error", "error", "solutions", "count", "range",
                     "summary", "table title", "truncated", "table"} : ~Printed(t)

C5_Witness ==
    /\ pc = "done"
    /\ HistoryReturned
    /\ Len(history) = 0
    /\ exit_status = 0
    /\ Printed("no data")

\* what a run prints after "fetching", as a function of what stock.history did
ReportAfterHistory ==
    IF exc.type # ""
    THEN IF IsValueError(exc) THEN <<"validation error">> ELSE <<"error", "solutions">>
    ELSE IF Len(history) = 0 THEN <<"no data", "causes">>
    ELSE IF Len(history) > 20
         THEN <<"count", "range", "summary", "table title", "truncated", "table">>
         ELSE <<"count", "range", "summary", "table title", "table">>

\* C6: a failure of stock.info never ends the run: the warning is printed,
\* stock.history is called next as after a success, and the exit status and
\* the report depend on what stock.history did alone.
C6_MetadataFailureIsCosmetic ==
    /\ InfoFailed =>
           /\ pc # "info"
           /\ Len(output) >= 3
           /\ output[3].tag = "warning"
           /\ pc \in {"except", "done"} => Len(calls) = 2
    /\ (pc = "done" /\ ~ValidationFailed) =>
           /\ calls = <<"info", "history">>
           /\ Len(output) >= 4
           /\ output[4].tag = "fetching"
           /\ exit_status = IF exc.type # "" THEN 1 ELSE 0
           /\ SubSeq(Tags, 5, Len(Tags)) = ReportAfterHistory

C6_Witness ==
    /\ pc = "done"
    /\ info.kind = "ConnectionError"
    /\ Printed("warning")
    /\ HistoryReturned
    /\ Len(history) > 0
    /\ exit_status = 0

\* a printed row is the record with its prices rounded to 2 decimals
IsRowOf(row, rec) ==
    /\ row.Date = rec.Date
    /\ row.Volume = rec.Volume
    /\ \A c \in {"Open", "High", "Low", "Close"} :
           /\ row[c] % 10 = 0
           /\ row[c] - rec[c] \in -5..5

\* C7: of a series of n > 0 records the table shows the last 20, in date
\* order, under a truncation notice when n > 20, and all n without the notice
\* when n <= 20.
C7_TableShowsLastTwenty ==
    (pc = "done" /\ HistoryReturned /\ Len(history) > 0) =>
        LET n    == Len(history)
            rows == output[Len(output)].val
        IN  /\ Len(output) >= 2
            /\ output[Len(output)].tag = "table"
            /\ IF n > 20
               THEN /\ Len(rows) = 20
                    /\ \A j \in 1..20 : IsRowOf(rows[j], history[n - 20 + j])
                    /\ output[Len(output) - 1].tag = "truncated"
               ELSE /\ Len(rows) = n
                    /\ \A j \in 1..n : IsRowOf(rows[j], history[j])
                    /\ ~Printed("truncated")

\* 21 records: the first one is dropped and the notice printed
C7_Witness ==
    /\ pc = "done"
    /\ HistoryReturned
    /\ Len(history) = 21
    /\ Printed("truncated")
    /\ Len(output[Len(output)].val) = 20
    /\ output[Len(output)].val[1].Date = 2

\* the greatest common divisor of a >= 0 and b >= 0
RECURSIVE GCD(_, _)
GCD(a, b) == IF b = 0 THEN a ELSE GCD(b, a % b)

Abs(x) == IF x < 0 THEN -x ELSE x

\* the fraction a / b (b # 0) in lowest terms, the denominator positive
Lowest(a, b) ==
    LET g == GCD(Abs(a), Abs(b))
        z == IF b < 0 THEN -1 ELSE 1
    IN  <<(z * a) \div g, (z * b) \div g>>

\* C8: the summary of a non-empty series: first and last close, their
\* difference, the difference over the first close times 100 (no number when
\* the first close is 0), the largest High, the smallest Low and the mean
\* Volume; closes 100, 102, 98, 105, 110 give a change of 10 and +10.00 %.
C8_SummaryStats ==
    (pc = "table" \/ (pc = "done" /\ HistoryReturned /\ Len(history) > 0)) =>
        LET n  == Len(history)
            Hs == {history[i].High : i \in 1..n}
            Ls == {history[i].Low : i \in 1..n}
        IN  /\ stats.first_price = history[1].Close
            /\ stats.last_price = history[n].Close
            /\ stats.change = history[n].Close - history[1].Close
            /\ IF history[1].Close = 0
               THEN stats.change_percent.kind \in {"inf", "nan"}
               ELSE /\ stats.change_percent.kind = "finite"
                    /\ Lowest(stats.change_percent.num, stats.change_percent.den)
                           = Lowest((history[n].Close - history[1].Close) * 100,
                                    history[1].Close)
            /\ stats.max_price \in Hs
            /\ \A x \in Hs : x <= stats.max_price
            /\ stats.min_price \in Ls
            /\ \A x \in Ls : stats.min_price <= x
            /\ stats.avg_volume.den > 0
            /\ stats.avg_volume.num * n
                   = SeriesSum([i \in 1..n |-> history[n + 1 - i].Volume])
                       * stats.avg_volume.den
            /\ [i \in 1..n |-> history[i].Close] = ExampleCloses =>
                   /\ stats.change = 10000
                   /\ \E i \in 1..Len(output) :
                          /\ output[i].tag = "summary"
                          /\ output[i].val.change = 1000
                          /\ output[i].val.percent =
                                 [sign |-> "+", text |-> "number", hundredths |-> 1000]

C8_Witness ==
    /\ pc = "done"
    /\ HistoryReturned
    /\ history = ExampleSeries
    /\ stats.first_price = 100000
    /\ stats.last_price = 110000
    /\ stats.change = 10000
    /\ stats.change_percent = [kind |-> "finite", num |-> 1000000, den |-> 100000]
    /\ stats.max_price = 111500
    /\ stats.min_price = 95500
    /\ stats.avg_volume = [kind |-> "finite", num |-> 15000, den |-> 5]

\* C9: a ValueError of a validator ends the run with exit status 1 and the
\* validation-error line before any request is issued or any header printed;
\* and the validation-error line is printed only when a validator raised.
C9_ValidationPrecedesRequests ==
    /\ ValidationFailed =>
           /\ calls = <<>>
           /\ ~Printed("header")
           /\ pc = "done" => (exit_status = 1 /\ Tags = <<"validation error">>)
    /\ Printed("validation error") => ValidationFailed

\* C10: the requests of a run are stock.info once and then stock.history once,
\* stock.history only when stock.info is over, and nothing after a failure of
\* stock.history.
C10_RequestsInOrderOnce ==
    /\ calls \in { <<>>, <<"info">>, <<"info", "history">> }
    /\ Len(calls) = 2 =>
           /\ info.kind # "unbound"
           /\ Len(output) >= 4
           /\ output[3].tag \in {"company", "warning"}
           /\ output[4].tag = "fetching"
    /\ (HistoryFailed /\ pc = "done") => calls = <<"info", "history">>

C10_Witness ==
    /\ pc = "done"
    /\ exc.type = "ConnectionError"
    /\ calls = <<"info", "history">>
    /\ exit_status = 1

====
